---- MODULE Spec2Model ----
(***************************************************************************)
(* The ReAct agent turn loop of ai-agent/src/react_agent: the HTTP turn    *)
(* (main.py invoke_agent), the two-node graph (graph.py call_model,        *)
(* route_model_output, ToolNode) and the checkpointed message history      *)
(* (state.py, add_messages reducer, MemorySaver keyed by thread_id).       *)
(***************************************************************************)
EXTENDS Integers, Sequences, FiniteSets, TLC

\* ---------------------------------------------------------------- bounds
MaxWork == 9       \* requests served plus messages created in one behaviour
MaxReq == 2        \* messages carried by one request
MaxCalls == 2      \* tool calls carried by one assistant message
NumThreads == 2    \* distinct continuation keys

\* ------------------------------------------------------ program constants
SendWindow == 6    \* graph.py: state.messages[-6:]
KeepWindow == 6    \* graph.py: new_history[:-6]

None == 0
Threads == 1..NumThreads

\* ------------------------------------------------------------- messages
\* One message of langchain_core.messages; id None is 0.
Msg(id, type, content, tool_calls, tool_call_id, status) ==
  [id |-> id, type |-> type, content |-> content, tool_calls |-> tool_calls,
   tool_call_id |-> tool_call_id, status |-> status]

HumanMessage(id) == Msg(id, "human", "text", <<>>, None, "")
AIMessage(id, tool_calls) == Msg(id, "ai", "text", tool_calls, None, "")
SystemMessage == Msg(None, "system", "system_prompt", <<>>, None, "")
RemoveMessage(id) == Msg(id, "remove", "", <<>>, None, "")
ToolMessage(content, tool_call_id, status) ==
  Msg(None, "tool", content, <<>>, tool_call_id, status)

\* The registry of tools.py and the names a model may ask for.
TOOLS == {"search", "list_tables_tool", "get_table_columns_tool",
          "execute_sql_query_tool", "query_knowledge_base_tool"}
RequestedCalls == {<<"execute_sql_query_tool", "valid">>,
                   <<"execute_sql_query_tool", "invalid">>,
                   <<"nonexistent_tool", "valid">>}
RequestRoles == {"user", "assistant"}

ToolCall(id, name, args) == [id |-> id, name |-> name, args |-> args]

\* ------------------------------------------------------ sequence helpers
\* Python s[-n:] for n > 0.
LastN(s, n) ==
  IF Len(s) <= n THEN s ELSE SubSeq(s, Len(s) - n + 1, Len(s))

\* Python s[:-n] for n > 0.
DropLastN(s, n) ==
  IF Len(s) <= n THEN <<>> ELSE SubSeq(s, 1, Len(s) - n)

Ids(s) == {s[i].id : i \in 1..Len(s)}

IndexOfId(s, id) == CHOOSE i \in 1..Len(s) : s[i].id = id

\* add_messages gives every message without an id a fresh uuid.
assign_ids(ms, nid) ==
  [i \in 1..Len(ms) |->
     IF ms[i].id = None THEN [ms[i] EXCEPT !.id = nid + i - 1] ELSE ms[i]]

\* The merge loop of add_messages: a message whose id is already in left
\* replaces it (or marks it for removal), any other message is appended.
RECURSIVE merge_messages(_, _, _, _)
merge_messages(left, merged, right, ids_to_remove) ==
  IF right = <<>>
  THEN SelectSeq(merged, LAMBDA m : m.id \notin ids_to_remove)
  ELSE LET m == Head(right) IN
       IF m.id \in Ids(left)
       THEN IF m.type = "remove"
            THEN merge_messages(left, merged, Tail(right),
                                ids_to_remove \cup {m.id})
            ELSE merge_messages(left,
                                [merged EXCEPT ![IndexOfId(left, m.id)] = m],
                                Tail(right), ids_to_remove)
       ELSE merge_messages(left, Append(merged, m), Tail(right),
                           ids_to_remove)

\* add_messages raises ValueError for a removal marker whose id is neither
\* in left nor earlier in right: the ids of such markers.
missing_removals(left, right) ==
  {right[i].id : i \in {j \in 1..Len(right) :
                          /\ right[j].type = "remove"
                          /\ right[j].id \notin Ids(left)
                          /\ \A k \in 1..(j - 1) : right[k].id # right[j].id}}

\* Mutant: the reducer appends and never applies a removal marker.
add_messages_no_removal(left, right) ==
  left \o SelectSeq(right, LAMBDA m : m.type # "remove")

\* The reducer of State.messages (right already carries ids).
add_messages(left, right) == merge_messages(left, left, right, {})

\* --------------------------------------------------------------- state
VARIABLES
  checkpoint,    \* MemorySaver: thread_id -> persisted messages
  usedThreads,   \* thread ids already handed out or seen
  thread_id,     \* thread of the turn in progress
  messages,      \* state.messages of the turn in progress
  pc,            \* position of the turn in the graph
  request,       \* roles of the request messages of the turn
  prior,         \* length of the persisted history when the turn started
  turnStartId,   \* id given to the first message produced in the turn
  sent,          \* messages_to_send of the latest model invocation
  update,        \* the update returned by the latest call_model
  routed,        \* latest result of route_model_output
  resolved,      \* indexes of the tool calls in the order they resolved
  results,       \* index of a tool call -> its ToolMessage
  output_state,  \* what graph.ainvoke returned to the endpoint
  nextId,        \* next fresh message id
  turns,         \* requests served so far
  database_schema,  \* configurable["database_schema"] of the requests
  chunks,        \* what the /stream response has sent for the turn
  requested,     \* the thread_id field of the request of the turn
  parked,        \* the other request in flight, suspended at an await
  steps,         \* supersteps graph.ainvoke has run for the turn
  tool,          \* one invocation of a tool function: its inputs and locals
  rag            \* one POST /run-rag: the chunks and the batch loop

\* What the requests of a behaviour are configured with, the stream, and
\* the second request of the server.
aux == <<database_schema, chunks, requested, parked, steps, tool, rag>>

\* The locals of a request handler that has not started.
NoTurn ==
  [thread_id |-> None, messages |-> <<>>, pc |-> "idle", request |-> <<>>,
   prior |-> 0, turnStartId |-> 1, sent |-> <<>>, update |-> <<>>,
   routed |-> "", resolved |-> <<>>, results |-> <<>>,
   output_state |-> <<>>, requested |-> None]

\* No tool function is being followed step by step.
ToolIdle ==
  [name |-> "", database_schema |-> "", index_host |-> "", namespace |-> "",
   query |-> <<>>, table_names |-> 0, pc |-> "idle", open |-> 0,
   opened |-> 0, log |-> <<>>, error |-> <<>>, written |-> FALSE,
   committed |-> FALSE]

\* No /run-rag request is being followed.
RagIdle ==
  [entry |-> "", variant |-> "", chunks |-> 0, tamanho_lote |-> 1,
   failing |-> 0, i |-> 0, upserted |-> <<>>, pc |-> "idle", error |-> "",
   status |-> 0, chunks_processed |-> 0]

vars == <<checkpoint, usedThreads, thread_id, messages, pc, request, prior,
          turnStartId, sent, update, routed, resolved, results, output_state,
          nextId, turns, aux>>

Init ==
  /\ checkpoint = [t \in Threads |-> <<>>]
  /\ usedThreads = {}
  /\ thread_id = None
  /\ messages = <<>>
  /\ pc = "idle"
  /\ request = <<>>
  /\ prior = 0
  /\ turnStartId = 1
  /\ sent = <<>>
  /\ update = <<>>
  /\ routed = ""
  /\ resolved = <<>>
  /\ results = <<>>
  /\ output_state = <<>>
  /\ nextId = 1
  /\ turns = 0
  /\ database_schema = "marketing"
  /\ chunks = <<>>
  /\ requested = None
  /\ parked = NoTurn
  /\ steps = 0
  /\ tool = ToolIdle
  /\ rag = RagIdle

\* ------------------------------------------------------------- the turn
\* Requests served and messages created so far.
work == turns + (nextId - 1)

\* Mutant: requests without a key share one key.
get_thread_id_shared(tid, fresh) == IF tid # None THEN tid ELSE 1

\* main.py get_thread_id: the caller's key, or a fresh uuid4.
get_thread_id(tid, fresh) == IF tid # None THEN tid ELSE fresh

\* uuid4(): a key no request has used yet (None when the bound is exhausted).
uuid4 ==
  IF Threads \ usedThreads = {} THEN None
  ELSE CHOOSE t \in Threads \ usedThreads :
         \A u \in Threads \ usedThreads : t <= u

\* main.py: a request message becomes a HumanMessage or an AIMessage.
to_input_message(role) ==
  IF role = "user" THEN HumanMessage(None) ELSE AIMessage(None, <<>>)

\* The thread_id of a request: absent, a key of an earlier request, or a key
\* of the caller's own making (as unused as a fresh uuid4).
CallerKeys == {None} \cup usedThreads \cup ({uuid4} \ {None})

Requests == UNION {[1..n -> RequestRoles] : n \in 0..MaxReq}

\* invoke_agent up to the first node: the input is merged into the
\* thread's checkpoint and the graph enters call_model; nothing of the
\* previous request's run is left.
StartTurn(tid, req) ==
  /\ pc \in {"idle", "done", "failed", "cancelled"}
  /\ work + 1 + Len(req) + 1 <= MaxWork
  /\ turns' = turns + 1
  /\ get_thread_id(tid, uuid4) # None
  /\ LET th == get_thread_id(tid, uuid4)
         input == assign_ids([i \in 1..Len(req) |-> to_input_message(req[i])],
                             nextId)
         merged == add_messages(checkpoint[th], input)
     IN /\ thread_id' = th
        /\ usedThreads' = usedThreads \cup {th}
        /\ prior' = Len(checkpoint[th])
        /\ messages' = merged
        /\ checkpoint' = [checkpoint EXCEPT ![th] = merged]
  /\ request' = req
  /\ turnStartId' = nextId
  /\ nextId' = nextId + Len(req)
  /\ pc' = "call_model"
  /\ sent' = <<>>
  /\ update' = <<>>
  /\ routed' = ""
  /\ resolved' = <<>>
  /\ results' = <<>>
  /\ output_state' = <<>>

\* Mutant: the context is cut one message short.
messages_to_send_short(ms) ==
  IF Len(ms) >= SendWindow
  THEN <<SystemMessage>> \o LastN(ms, SendWindow - 1)
  ELSE <<SystemMessage>> \o ms

\* graph.py call_model: the context handed to the model.
messages_to_send(ms) ==
  IF Len(ms) >= SendWindow
  THEN <<SystemMessage>> \o LastN(ms, SendWindow)
  ELSE <<SystemMessage>> \o ms

\* Mutant: the trim keeps one message too many.
delete_messages_keep7(new_history) ==
  IF Len(new_history) > KeepWindow + 1
  THEN LET messages_to_remove == DropLastN(new_history, KeepWindow + 1)
       IN [i \in 1..Len(messages_to_remove) |->
             RemoveMessage(messages_to_remove[i].id)]
  ELSE <<>>

\* Mutant: every marker carries the identifier of the first evicted message.
delete_messages_first_id(new_history) ==
  IF Len(new_history) > KeepWindow
  THEN LET messages_to_remove == DropLastN(new_history, KeepWindow)
       IN [i \in 1..Len(messages_to_remove) |->
             RemoveMessage(messages_to_remove[1].id)]
  ELSE <<>>

\* Mutant: the trim keeps the last 3 messages only.
delete_messages_keep3(new_history) ==
  IF Len(new_history) > 3
  THEN LET messages_to_remove == DropLastN(new_history, 3)
       IN [i \in 1..Len(messages_to_remove) |->
             RemoveMessage(messages_to_remove[i].id)]
  ELSE <<>>

\* Mutant: the trim evicts the newest messages, the response among them.
delete_messages_newest(new_history) ==
  IF Len(new_history) > KeepWindow
  THEN LET messages_to_remove ==
             LastN(new_history, Len(new_history) - KeepWindow)
       IN [i \in 1..Len(messages_to_remove) |->
             RemoveMessage(messages_to_remove[i].id)]
  ELSE <<>>

\* Mutant: every marker names the message created before the evicted one.
delete_messages_previous_id(new_history) ==
  IF Len(new_history) > KeepWindow
  THEN LET messages_to_remove == DropLastN(new_history, KeepWindow)
       IN [i \in 1..Len(messages_to_remove) |->
             RemoveMessage(messages_to_remove[i].id - 1)]
  ELSE <<>>

\* graph.py call_model: the removal markers for all but the last 6.
delete_messages(new_history) ==
  IF Len(new_history) > KeepWindow
  THEN LET messages_to_remove == DropLastN(new_history, KeepWindow)
       IN [i \in 1..Len(messages_to_remove) |->
             RemoveMessage(messages_to_remove[i].id)]
  ELSE <<>>

\* Mutant: the update carries the response and no removal marker.
call_model_update_no_markers(ms, response) == <<response>>

\* graph.py call_model: the returned update.
call_model_update(ms, response) ==
  <<response>> \o delete_messages(Append(ms, response))

\* The tool-call lists a model may put in its answer.
CallLists == UNION {[1..n -> RequestedCalls] : n \in 0..MaxCalls}

\* The assistant message of the model, with fresh call identifiers.
Response(rid, cl) ==
  AIMessage(rid, [i \in 1..Len(cl) |->
                    ToolCall(10 * rid + i, cl[i][1], cl[i][2])])

\* call_model: the model answers and the returned update is merged into
\* the state, which the checkpointer saves.
call_model(cl) ==
  /\ pc = "call_model"
  /\ LET response == Response(nextId, cl)
         upd == call_model_update(messages, response)
         merged == add_messages(messages, upd)
     IN /\ sent' = messages_to_send(messages)
        /\ update' = upd
        /\ IF missing_removals(messages, upd) = {}
             THEN /\ messages' = merged
                  /\ checkpoint' = [checkpoint EXCEPT ![thread_id] = merged]
                  /\ pc' = "route"
             ELSE /\ pc' = "failed"
                  /\ UNCHANGED <<messages, checkpoint>>
  /\ nextId' = nextId + 1
  /\ UNCHANGED <<usedThreads, thread_id, request, prior, turnStartId, routed,
                 resolved, results, output_state, turns>>

\* call_model while the behaviour has room for the response, the results
\* of its tool calls and the answer to them.
CallModel(cl) ==
  /\ IF cl = <<>> THEN work + 1 <= MaxWork
     ELSE work + 1 + Len(cl) + 1 <= MaxWork
  /\ call_model(cl)

\* Mutant: a failed model call is made again.
ModelFailsRetried ==
  /\ pc = "call_model"
  /\ sent' = messages_to_send(messages)
  /\ update' = <<>>
  /\ pc' = "call_model"
  /\ UNCHANGED <<checkpoint, usedThreads, thread_id, messages, request, prior,
                 turnStartId, routed, resolved, results, output_state, nextId,
                 turns>>

\* model.ainvoke raises: the exception leaves call_model and the graph.
ModelFails ==
  /\ pc = "call_model"
  /\ sent' = messages_to_send(messages)
  /\ update' = <<>>
  /\ pc' = "failed"
  /\ UNCHANGED <<checkpoint, usedThreads, thread_id, messages, request, prior,
                 turnStartId, routed, resolved, results, output_state, nextId,
                 turns>>

\* Mutant: the routing looks at the first message of the state.
route_model_output_first(ms) ==
  LET last_message == ms[1] IN
  IF last_message.type # "ai" THEN "ValueError"
  ELSE IF last_message.tool_calls # <<>> THEN "tools"
  ELSE "__end__"

\* Mutant: the two branches of the routing are swapped.
route_model_output_swapped(ms) ==
  LET last_message == ms[Len(ms)] IN
  IF last_message.type # "ai" THEN "ValueError"
  ELSE IF last_message.tool_calls # <<>> THEN "__end__"
  ELSE "tools"

\* graph.py route_model_output.
route_model_output(ms) ==
  LET last_message == ms[Len(ms)] IN
  IF last_message.type # "ai" THEN "ValueError"
  ELSE IF last_message.tool_calls # <<>> THEN "tools"
  ELSE "__end__"

\* The conditional edge after call_model; the locals of call_model are gone.
Route ==
  /\ pc = "route"
  /\ LET r == route_model_output(messages) IN
       /\ routed' = r
       /\ pc' = CASE r = "tools" -> "tools"
                  [] r = "__end__" -> "done"
                  [] OTHER -> "failed"
       /\ output_state' = IF r = "__end__" THEN messages ELSE output_state
  /\ sent' = <<>>
  /\ update' = <<>>
  /\ resolved' = <<>>
  /\ results' = <<>>
  /\ UNCHANGED <<checkpoint, usedThreads, thread_id, messages, request, prior,
                 turnStartId, nextId, turns>>

\* Mutant: the name and the arguments of a call are not validated.
run_one_unvalidated(call) == ToolMessage("result", call.id, "success")

\* ToolNode: one call. An unknown name or arguments that fail the schema
\* give an error ToolMessage, anything else the tool's result.
run_one(call) ==
  IF call.name \notin TOOLS
  THEN ToolMessage("UnknownTool", call.id, "error")
  ELSE IF call.args # "valid"
  THEN ToolMessage("InvalidToolArguments", call.id, "error")
  ELSE ToolMessage("result", call.id, "success")

\* ToolNode reads the tool calls of the last message.
pending_calls == messages[Len(messages)].tool_calls

\* ToolNode runs the calls concurrently: any unresolved call may finish next.
ToolResolve(i) ==
  /\ pc = "tools"
  /\ i \in 1..Len(pending_calls)
  /\ i \notin {resolved[k] : k \in 1..Len(resolved)}
  /\ resolved' = Append(resolved, i)
  /\ results' = [k \in DOMAIN results \cup {i} |->
                   IF k = i THEN run_one(pending_calls[i])
                   ELSE results[k]]
  /\ UNCHANGED <<checkpoint, usedThreads, thread_id, messages, pc, request,
                 prior, turnStartId, sent, update, routed, output_state,
                 nextId, turns>>

\* Mutant: the outputs are gathered in the order the calls resolved.
tool_outputs_as_resolved(calls, res, order) ==
  [i \in 1..Len(calls) |-> res[order[i]]]

\* ToolNode gathers the outputs in the order of the calls.
tool_outputs(calls, res, order) == [i \in 1..Len(calls) |-> res[i]]

\* The tools node returns: its messages are merged and call_model is next.
ToolsFinish ==
  /\ pc = "tools"
  /\ Len(resolved) = Len(pending_calls)
  /\ LET outputs == assign_ids(tool_outputs(pending_calls, results, resolved),
                               nextId)
         merged == add_messages(messages, outputs)
     IN /\ messages' = merged
        /\ checkpoint' = [checkpoint EXCEPT ![thread_id] = merged]
        /\ nextId' = nextId + Len(outputs)
  /\ results' = <<>>
  /\ pc' = "call_model"
  /\ UNCHANGED <<usedThreads, thread_id, request, prior, turnStartId, sent,
                 update, routed, resolved, output_state, turns>>

\* Requests that carry every setting, tools whose services answer.
Next ==
  \/ \E tid \in CallerKeys, req \in Requests :
       StartTurn(tid, req) /\ UNCHANGED aux
  \/ \E cl \in CallLists : CallModel(cl) /\ UNCHANGED aux
  \/ ModelFails /\ UNCHANGED aux
  \/ Route /\ UNCHANGED aux
  \/ \E i \in 1..MaxCalls : ToolResolve(i) /\ UNCHANGED aux
  \/ ToolsFinish /\ UNCHANGED aux

Spec == Init /\ [][Next]_vars

\* main.py invoke_agent: the status of the response, once there is one.
http_status ==
  CASE pc = "done" -> 200
    [] pc = "failed" -> 500
    [] OTHER -> None

\* main.py: the role a message is given in a response.
response_role(msg) == IF msg.type = "ai" THEN "assistant" ELSE "user"

\* main.py extract_message_content: the content of a message is a string
\* here and is returned as it is.
extract_message_content(msg) == msg.content

\* Mutant: /invoke_last answers with the first message of the state.
invoke_agent_last_first(out, th) ==
  IF out = <<>>
  THEN [status |-> 500, thread_id |-> th, role |-> "", content |-> ""]
  ELSE [status |-> 200, thread_id |-> th, role |-> response_role(out[1]),
        content |-> extract_message_content(out[1])]

\* main.py invoke_agent_last, after graph.ainvoke has returned out for a
\* request served under the key th.
invoke_agent_last(out, th) ==
  IF out = <<>>
  THEN [status |-> 500, thread_id |-> th, role |-> "", content |-> ""]
  ELSE [status |-> 200, thread_id |-> th,
        role |-> response_role(out[Len(out)]),
        content |-> extract_message_content(out[Len(out)])]

\* ------------------------------------------- tools that raise on their own
\* postgree_sql_tools.py: the tools that read configuration.database_schema.
SchemaTools == {"list_tables_tool", "get_table_columns_tool",
                "execute_sql_query_tool"}

\* "not configuration.database_schema" holds of None and of "".
Absent == ""
Schemas == {Absent, "marketing"}
Services == {"up", "down"}

\* The body of a tool, entered with arguments that passed its schema: the
\* database_schema check comes first and raises ValueError, then the service
\* (database, embeddings, vector store, search) answers or raises.
invoke_tool(name, schema, service) ==
  IF name \in SchemaTools /\ schema = Absent THEN "ValueError"
  ELSE IF service = "down" THEN "OperationalError"
  ELSE "result"

\* The call reaches the body of a tool and the body raises.
raises(call, service) ==
  /\ call.name \in TOOLS
  /\ call.args = "valid"
  /\ invoke_tool(call.name, database_schema, service) # "result"

\* ToolNode(TOOLS) is built with its defaults and no langgraph version is
\* pinned. A ToolNode that handles every tool error (the default up to
\* langgraph 0.6) turns the exception into an error ToolMessage.
ToolErrorHandled(i, service) ==
  /\ pc = "tools"
  /\ i \in 1..Len(pending_calls)
  /\ i \notin {resolved[k] : k \in 1..Len(resolved)}
  /\ raises(pending_calls[i], service)
  /\ resolved' = Append(resolved, i)
  /\ results' = [k \in DOMAIN results \cup {i} |->
                   IF k = i
                   THEN ToolMessage(invoke_tool(pending_calls[i].name,
                                                database_schema, service),
                                    pending_calls[i].id, "error")
                   ELSE results[k]]
  /\ UNCHANGED <<checkpoint, usedThreads, thread_id, messages, pc, request,
                 prior, turnStartId, sent, update, routed, output_state,
                 nextId, turns>>

\* A ToolNode that handles only invocation errors (the default from
\* langgraph 1.0) lets the exception leave the node: graph.ainvoke raises.
ToolErrorRaised(i, service) ==
  /\ pc = "tools"
  /\ i \in 1..Len(pending_calls)
  /\ i \notin {resolved[k] : k \in 1..Len(resolved)}
  /\ raises(pending_calls[i], service)
  /\ pc' = "failed"
  /\ UNCHANGED <<checkpoint, usedThreads, thread_id, messages, request, prior,
                 turnStartId, sent, update, routed, resolved, results,
                 output_state, nextId, turns>>

\* The calls the model makes when the tools may raise.
FailCalls == {<<t, "valid">> : t \in SchemaTools}
               \cup {<<"execute_sql_query_tool", "invalid">>}

FailCallLists == UNION {[1..n -> FailCalls] : n \in 0..MaxCalls}

InitFail ==
  /\ checkpoint = [th \in Threads |-> <<>>]
  /\ usedThreads = {}
  /\ thread_id = None
  /\ messages = <<>>
  /\ pc = "idle"
  /\ request = <<>>
  /\ prior = 0
  /\ turnStartId = 1
  /\ sent = <<>>
  /\ update = <<>>
  /\ routed = ""
  /\ resolved = <<>>
  /\ results = <<>>
  /\ output_state = <<>>
  /\ nextId = 1
  /\ turns = 0
  /\ database_schema \in Schemas
  /\ chunks = <<>>
  /\ requested = None
  /\ parked = NoTurn
  /\ steps = 0
  /\ tool = ToolIdle
  /\ rag = RagIdle

\* Requests of one user message, with or without database_schema, and
\* tools whose services may be down.
NextFail ==
  \/ \E tid \in CallerKeys : StartTurn(tid, <<"user">>) /\ UNCHANGED aux
  \/ \E cl \in FailCallLists : CallModel(cl) /\ UNCHANGED aux
  \/ ModelFails /\ UNCHANGED aux
  \/ Route /\ UNCHANGED aux
  \/ \E i \in 1..MaxCalls :
       /\ ToolResolve(i)
       /\ ~raises(pending_calls[i], "up")
       /\ UNCHANGED aux
  \/ \E i \in 1..MaxCalls, service \in Services :
       ToolErrorHandled(i, service) /\ UNCHANGED aux
  \/ \E i \in 1..MaxCalls, service \in Services :
       ToolErrorRaised(i, service) /\ UNCHANGED aux
  \/ ToolsFinish /\ UNCHANGED aux

SpecFail == InitFail /\ [][NextFail]_vars

\* ------------------------------------------------------ the /stream route
\* An event of graph.astream_events(version="v2"): the update of a node is
\* under data.output, the event itself has no "messages" key.
StreamEvent(event, name, output) ==
  [event |-> event, name |-> name, data |-> [output |-> output]]

\* The events of one step of a node.
astream_events(name, output) ==
  <<StreamEvent("on_chain_start", name, <<>>),
    StreamEvent("on_chain_end", name, [messages |-> output])>>

\* generate_chunks, the loop body: what one event makes the response send.
chunk_of(event) ==
  IF "messages" \in DOMAIN event
  THEN <<"data: " \o event.messages[Len(event.messages)].content>>
  ELSE <<>>

RECURSIVE generate_chunks(_)
generate_chunks(events) ==
  IF events = <<>> THEN <<>>
  ELSE chunk_of(Head(events)) \o generate_chunks(Tail(events))

StreamOpen ==
  IF chunks = <<>> THEN TRUE ELSE chunks[Len(chunks)] # "data: [DONE]"

\* stream_agent: the same key, configuration and input as invoke_agent.
StreamStart(tid, req) ==
  /\ IF pc \in {"idle", "cancelled"} THEN TRUE ELSE ~StreamOpen
  /\ StartTurn(tid, req)
  /\ chunks' = <<>>
  /\ UNCHANGED <<database_schema, requested, parked, steps, tool, rag>>

StreamCallModel(cl) ==
  /\ CallModel(cl)
  /\ chunks' = chunks \o generate_chunks(astream_events("call_model", update'))
  /\ UNCHANGED <<database_schema, requested, parked, steps, tool, rag>>

\* except Exception: the error is sent as a chunk.
StreamModelFails ==
  /\ ModelFails
  /\ chunks' = Append(chunks, "data: Error")
  /\ UNCHANGED <<database_schema, requested, parked, steps, tool, rag>>

StreamRoute ==
  /\ Route
  /\ chunks' = IF routed' = "ValueError" THEN Append(chunks, "data: Error")
                ELSE chunks
  /\ UNCHANGED <<database_schema, requested, parked, steps, tool, rag>>

StreamToolResolve(i) ==
  /\ ToolResolve(i)
  /\ chunks' = chunks \o generate_chunks(
                  <<StreamEvent("on_tool_end", pending_calls[i].name,
                                results'[i])>>)
  /\ UNCHANGED <<database_schema, requested, parked, steps, tool, rag>>

StreamToolsFinish ==
  /\ ToolsFinish
  /\ chunks' = chunks \o generate_chunks(
                  astream_events("tools", SubSeq(messages', Len(messages) + 1,
                                                 Len(messages'))))
  /\ UNCHANGED <<database_schema, requested, parked, steps, tool, rag>>

\* After the loop and the except clause: the marker is the last chunk.
StreamDone ==
  /\ pc \in {"done", "failed"}
  /\ StreamOpen
  /\ chunks' = Append(chunks, "data: [DONE]")
  /\ UNCHANGED <<checkpoint, usedThreads, thread_id, messages, pc, request,
                 prior, turnStartId, sent, update, routed, resolved, results,
                 output_state, nextId, turns, database_schema, requested,
                 parked, steps, tool, rag>>

\* The client disconnects: the generator is cancelled where it awaits (the
\* model call, a tool), the CancelledError is no Exception and nothing more
\* is sent.
Cancel ==
  /\ pc \in {"call_model", "tools"}
  /\ pc' = "cancelled"
  /\ UNCHANGED <<checkpoint, usedThreads, thread_id, messages, request, prior,
                 turnStartId, sent, update, routed, resolved, results,
                 output_state, nextId, turns, aux>>

\* Requests of one user message, sent to /stream.
NextStream ==
  \/ \E tid \in CallerKeys : StreamStart(tid, <<"user">>)
  \/ \E cl \in CallLists : StreamCallModel(cl)
  \/ StreamModelFails
  \/ StreamRoute
  \/ \E i \in 1..MaxCalls : StreamToolResolve(i)
  \/ StreamToolsFinish
  \/ StreamDone
  \/ Cancel

SpecStream == Init /\ [][NextStream]_vars

\* ------------------------------------------------- two requests in flight
\* The handlers are coroutines of one event loop: a request that awaits
\* (the model, a tool) or has not started lets the other one run. Each
\* graph.ainvoke keeps its own state and writes the checkpoint of its thread.
Switch ==
  /\ pc # "route"
  /\ parked.pc # "route"
  /\ parked' = [thread_id |-> thread_id, messages |-> messages, pc |-> pc,
                request |-> request, prior |-> prior,
                turnStartId |-> turnStartId, sent |-> sent, update |-> update,
                routed |-> routed, resolved |-> resolved, results |-> results,
                output_state |-> output_state, requested |-> requested]
  /\ thread_id' = parked.thread_id
  /\ messages' = parked.messages
  /\ pc' = parked.pc
  /\ request' = parked.request
  /\ prior' = parked.prior
  /\ turnStartId' = parked.turnStartId
  /\ sent' = parked.sent
  /\ update' = parked.update
  /\ routed' = parked.routed
  /\ resolved' = parked.resolved
  /\ results' = parked.results
  /\ output_state' = parked.output_state
  /\ requested' = parked.requested
  /\ UNCHANGED <<checkpoint, usedThreads, nextId, turns, database_schema,
                 chunks, steps, tool, rag>>

\* invoke_agent of a request whose thread_id field is tid.
ConcStart(tid) ==
  /\ StartTurn(tid, <<"user">>)
  /\ requested' = tid
  /\ UNCHANGED <<database_schema, chunks, parked, steps, tool, rag>>

ConcCalls == {<<>>, <<<<"execute_sql_query_tool", "valid">>>>}

\* Two requests of one user message; the model asks for at most one tool.
NextConc ==
  \/ \E tid \in CallerKeys : ConcStart(tid)
  \/ \E cl \in ConcCalls : CallModel(cl) /\ UNCHANGED aux
  \/ ModelFails /\ UNCHANGED aux
  \/ Route /\ UNCHANGED aux
  \/ \E i \in 1..MaxCalls : ToolResolve(i) /\ UNCHANGED aux
  \/ ToolsFinish /\ UNCHANGED aux
  \/ Switch

SpecConc == Init /\ [][NextConc]_vars

\* ------------------------------------------------- the recursion limit
\* graph.ainvoke is given a config without recursion_limit: langgraph runs
\* at most its default of 25 supersteps (nodes, not routing) for one call.
RecursionLimit == 25

\* The one turn of the behaviour.
LoopStart ==
  /\ pc = "idle"
  /\ StartTurn(None, <<"user">>)
  /\ steps' = 0
  /\ UNCHANGED <<database_schema, chunks, requested, parked, tool, rag>>

LoopCalls == {<<>>} \cup {<<c>> : c \in RequestedCalls}

LoopCallModel(cl) ==
  /\ steps < RecursionLimit
  /\ call_model(cl)
  /\ steps' = steps + 1
  /\ UNCHANGED <<database_schema, chunks, requested, parked, tool, rag>>

LoopModelFails ==
  /\ steps < RecursionLimit
  /\ ModelFails
  /\ UNCHANGED aux

LoopToolResolve(i) ==
  /\ steps < RecursionLimit
  /\ ToolResolve(i)
  /\ UNCHANGED aux

LoopToolsFinish ==
  /\ steps < RecursionLimit
  /\ ToolsFinish
  /\ steps' = steps + 1
  /\ UNCHANGED <<database_schema, chunks, requested, parked, tool, rag>>

\* Mutant: the turn that is out of steps ends as a finished turn.
OutOfStepsDone ==
  /\ pc \in {"call_model", "tools"}
  /\ steps = RecursionLimit
  /\ pc' = "done"
  /\ UNCHANGED <<checkpoint, usedThreads, thread_id, messages, request, prior,
                 turnStartId, sent, update, routed, resolved, results,
                 output_state, nextId, turns, aux>>

\* A node is due and the limit is used up: graph.ainvoke raises
\* GraphRecursionError. call_model does not read state.is_last_step.
OutOfSteps ==
  /\ pc \in {"call_model", "tools"}
  /\ steps = RecursionLimit
  /\ pc' = "failed"
  /\ UNCHANGED <<checkpoint, usedThreads, thread_id, messages, request, prior,
                 turnStartId, sent, update, routed, resolved, results,
                 output_state, nextId, turns, aux>>

\* One turn, as long as the model and the limit let it run.
NextLoop ==
  \/ LoopStart
  \/ \E cl \in LoopCalls : LoopCallModel(cl)
  \/ LoopModelFails
  \/ Route /\ UNCHANGED aux
  \/ \E i \in 1..MaxCalls : LoopToolResolve(i)
  \/ LoopToolsFinish
  \/ OutOfSteps

SpecLoop == Init /\ [][NextLoop]_vars

\* ------------------------------------------- route_model_output, alone
MaxRouteLen == 3   \* length of the states handed to route_model_output

\* The kinds of message a state can end with or contain.
RouteMessages ==
  {HumanMessage(None), SystemMessage, AIMessage(None, <<>>),
   AIMessage(None, <<ToolCall(1, "execute_sql_query_tool", "valid")>>),
   AIMessage(None, <<ToolCall(1, "nonexistent_tool", "valid"),
                     ToolCall(2, "execute_sql_query_tool", "invalid")>>),
   ToolMessage("result", 1, "success")}

RouteInputs ==
  UNION {{assign_ids(ms, 1) : ms \in [1..n -> RouteMessages]} :
           n \in 1..MaxRouteLen}

\* Any non-empty state, about to be routed.
InitRoute ==
  /\ checkpoint = [t \in Threads |-> <<>>]
  /\ usedThreads = {}
  /\ thread_id = None
  /\ messages \in RouteInputs
  /\ pc = "route"
  /\ request = <<>>
  /\ prior = 0
  /\ turnStartId = 1
  /\ sent = <<>>
  /\ update = <<>>
  /\ routed = ""
  /\ resolved = <<>>
  /\ results = <<>>
  /\ output_state = <<>>
  /\ nextId = 1
  /\ turns = 0
  /\ database_schema = "marketing"
  /\ chunks = <<>>
  /\ requested = None
  /\ parked = NoTurn
  /\ steps = 0
  /\ tool = ToolIdle
  /\ rag = RagIdle

SpecRoute == InitRoute /\ [][Route /\ UNCHANGED aux]_vars

\* ================================================================ claims
TakeLast(s, n) ==
  [i \in 1..(IF Len(s) < n THEN Len(s) ELSE n) |->
     s[Len(s) - (IF Len(s) < n THEN Len(s) ELSE n) + i]]

LastOf(s) == s[Len(s)]

CallModelStep == pc = "call_model" /\ pc' = "route"

\* C1 (as stated): after any update of the conversation state - request
\* messages merged into the persisted history, a call_model update, tool
\* results appended - the state holds at most 6 messages.
C1_AtMostSixAfterAnyUpdate ==
  Len(messages) <= 6

\* C1 (amended): once a call_model update has been applied, and until the
\* next update, the state and the thread's checkpoint hold at most 6
\* messages.
C1_AtMostSixAfterCallModel ==
  pc \in {"route", "tools", "done"} =>
    /\ Len(messages) <= 6
    /\ Len(checkpoint[thread_id]) <= 6

\* C1 witness: call_model has just trimmed a state that held more than 6.
C1_Witness ==
  /\ pc = "route"
  /\ Len(messages) = 6
  /\ Len(update) = 2
  /\ prior > 0

\* C2: applying call_model's update to a history h leaves exactly the last
\* min(6, len(h)+1) messages of h + [r], in order, with the response r last.
C2_RetainedSuffix ==
  [][CallModelStep =>
       LET r == update'[1]
           kept == TakeLast(Append(messages, r), 6)
       IN /\ messages' = kept
          /\ Len(messages') = (IF Len(messages) + 1 < 6
                               THEN Len(messages) + 1 ELSE 6)
          /\ LastOf(messages') = r
          /\ r.type = "ai"]_vars

\* C2 witness: an update that evicted two messages has been applied; the
\* retained suffix starts right behind the evicted prefix.
C2_Witness ==
  /\ pc = "route"
  /\ Len(update) = 3
  /\ Len(messages) = 6
  /\ LastOf(messages) = update[1]
  /\ messages[1].id = update[3].id + 1

\* C3: the removal markers of a call_model step name exactly the messages
\* of history + [response] that precede its last 6 (none up to 6 messages,
\* 2 for 8), one distinct identifier each, never the response.
C3_EvictedPrefix ==
  [][CallModelStep =>
       LET r == update'[1]
           new_history == Append(messages, r)
           markers == Tail(update')
           excess == IF Len(new_history) > 6 THEN Len(new_history) - 6 ELSE 0
       IN /\ Len(markers) = excess
          /\ \A i \in 1..Len(markers) :
               /\ markers[i].type = "remove"
               /\ markers[i].id = new_history[i].id
               /\ markers[i].id # r.id
          /\ \A i, j \in 1..Len(markers) :
               markers[i].id = markers[j].id => i = j
          /\ (Len(new_history) <= 6 => markers = <<>>)
          /\ (Len(new_history) = 8 => Len(markers) = 2)]_vars

\* C3 witness: history + [response] had 8 messages, two markers were emitted.
C3_Witness ==
  /\ pc = "route"
  /\ Len(update) = 3
  /\ update[2].type = "remove"
  /\ update[3].type = "remove"
  /\ update[2].id # update[3].id

\* C4: at DONE the state returned to the caller and the state persisted
\* for the thread hold at most 6 messages.
C4_DoneWithinWindow ==
  pc = "done" =>
    /\ Len(output_state) <= 6
    /\ Len(checkpoint[thread_id]) <= 6
    /\ output_state = checkpoint[thread_id]

\* C4 witness: a turn that saw more than 6 messages has reached DONE.
C4_Witness ==
  /\ pc = "done"
  /\ prior + (nextId - turnStartId) > 6
  /\ Len(output_state) = 6

\* C5: route_model_output depends on the last message only: "tools" iff it
\* is an assistant message with a tool call, "__end__" iff it is an
\* assistant message without one, an error for any other role.
C5_RouteByLastMessage ==
  [][pc = "route" =>
       LET last == LastOf(messages) IN
       /\ routed' = "tools" <=> (last.type = "ai" /\ Len(last.tool_calls) >= 1)
       /\ routed' = "__end__" <=>
            (last.type = "ai" /\ Len(last.tool_calls) = 0)
       /\ routed' = "ValueError" <=> last.type # "ai"
       /\ pc' = (CASE routed' = "tools" -> "tools"
                   [] routed' = "__end__" -> "done"
                   [] OTHER -> "failed")
       /\ messages' = messages]_vars

\* C5 witness: a state whose last message is a tool result, behind an
\* assistant message with tool calls, has been routed.
C5_Witness ==
  /\ routed = "ValueError"
  /\ Len(messages) = 3
  /\ messages[3].type = "tool"
  /\ messages[2].type = "ai"
  /\ messages[2].tool_calls # <<>>

NoToolCalls(m) == m.type = "ai" /\ m.tool_calls = <<>>

\* C6: a turn ends iff the latest message is an assistant message without
\* tool calls: at DONE the last message is one, routing reaches DONE only
\* from one, and once the model returned one the next step is DONE, with
\* no model or tool call in between.
C6_EndIffNoToolCalls ==
  /\ [](pc = "done" => NoToolCalls(LastOf(messages)))
  /\ [][pc = "route" =>
          /\ pc' = "done" <=> NoToolCalls(LastOf(messages))
          /\ NoToolCalls(LastOf(messages)) =>
               /\ messages' = messages
               /\ nextId' = nextId
               /\ output_state' = messages]_vars

\* C6 witness: a turn reached DONE after a tool round-trip.
C6_Witness ==
  /\ pc = "done"
  /\ routed = "__end__"
  /\ Len(messages) >= 3
  /\ messages[Len(messages) - 1].type = "tool"

\* C7: a model invocation receives one system message, first, then the
\* last min(6, n) messages of the state in order, and nothing else.
C7_ModelInput ==
  [][(pc = "call_model" /\ pc' \in {"route", "failed"}) =>
       LET n == Len(messages)
           k == IF n < 6 THEN n ELSE 6
       IN /\ Len(sent') = k + 1
          /\ sent'[1].type = "system"
          /\ \A i \in 1..k : sent'[i + 1] = messages[n - k + i]
          /\ \A i \in 2..Len(sent') : sent'[i].type # "system"]_vars

\* C7 witness: the model was invoked on a state of more than 6 messages.
C7_Witness ==
  /\ pc = "route"
  /\ Len(sent) = 7
  /\ Len(update) = 3
  /\ sent[2].id = update[3].id

\* C8: the tools node appends one tool result per call of the preceding
\* assistant message, tagged with the call's identifier, in the order of
\* the calls whatever the order they resolved in; call_model is next.
C8_ToolResultsInCallOrder ==
  [][(pc = "tools" /\ pc' # "tools") =>
       LET calls == LastOf(messages).tool_calls
           n == Len(messages)
       IN /\ pc' = "call_model"
          /\ Len(messages') = n + Len(calls)
          /\ SubSeq(messages', 1, n) = messages
          /\ \A i \in 1..Len(calls) :
               /\ messages'[n + i].type = "tool"
               /\ messages'[n + i].tool_call_id = calls[i].id
          /\ \A i, j \in 1..Len(calls) :
               messages'[n + i].id = messages'[n + j].id => i = j]_vars

\* C8 witness: two calls resolved in the reverse order and their results
\* have been appended.
C8_Witness ==
  /\ pc = "call_model"
  /\ resolved = <<2, 1>>
  /\ Len(messages) >= 3
  /\ LastOf(messages).type = "tool"
  /\ messages[Len(messages) - 1].type = "tool"
  /\ messages[Len(messages) - 2].tool_calls # <<>>

\* The rounds of a transcript from position i on: assistant messages with
\* tool calls, each followed by its results, then one final answer.
RECURSIVE RoundsFrom(_, _)
RoundsFrom(ms, i) ==
  /\ i <= Len(ms)
  /\ ms[i].type = "ai"
  /\ IF ms[i].tool_calls = <<>>
     THEN i = Len(ms)
     ELSE LET k == Len(ms[i].tool_calls) IN
          /\ i + k < Len(ms)
          /\ \A j \in 1..k :
               /\ ms[i + j].type = "tool"
               /\ ms[i + j].tool_call_id = ms[i].tool_calls[j].id
          /\ RoundsFrom(ms, i + k + 1)

\* C9: a turn on a fresh thread that produced at most 6 messages ends
\* with the request messages, then each round-trip's tool-call message and
\* results, then the final answer, nothing missing or duplicated; one user
\* message, one tool call and one answer give exactly 4 messages.
C9_Transcript ==
  (pc = "done" /\ prior = 0 /\ nextId - turnStartId <= 6) =>
    /\ Len(output_state) = nextId - turnStartId
    /\ \A i \in 1..Len(output_state) :
         output_state[i].id = turnStartId + i - 1
    /\ \A i \in 1..Len(request) :
         /\ i <= Len(output_state)
         /\ output_state[i].type =
              (IF request[i] = "user" THEN "human" ELSE "ai")
         /\ output_state[i].tool_calls = <<>>
    /\ RoundsFrom(output_state, Len(request) + 1)
    /\ (request = <<"user">>
        /\ Cardinality({i \in 1..Len(output_state) :
                          output_state[i].type = "ai"}) = 2
        /\ Len(output_state[2].tool_calls) = 1)
         => /\ Len(output_state) = 4
            /\ output_state[1].type = "human"
            /\ output_state[3].type = "tool"
            /\ output_state[3].tool_call_id = output_state[2].tool_calls[1].id
            /\ NoToolCalls(output_state[4])

\* C9 witness: user, assistant with one tool call, tool result, final answer.
C9_Witness ==
  /\ pc = "done"
  /\ prior = 0
  /\ request = <<"user">>
  /\ Len(output_state) = 4
  /\ output_state[1].type = "human"
  /\ Len(output_state[2].tool_calls) = 1
  /\ output_state[3].type = "tool"
  /\ output_state[3].content = "result"
  /\ NoToolCalls(output_state[4])

BadCall(c) ==
  c.name \notin {"search", "list_tables_tool", "get_table_columns_tool",
                 "execute_sql_query_tool", "query_knowledge_base_tool"}
  \/ c.args = "invalid"

\* C10: a call to an unregistered tool, or with arguments that fail the
\* schema, becomes a tool-result message with an error payload, and the
\* turn goes on to another model call instead of aborting.
C10_BadCallsAbsorbed ==
  [][(pc = "tools" /\ pc' # "tools") =>
       LET calls == LastOf(messages).tool_calls
           n == Len(messages)
       IN /\ pc' = "call_model"
          /\ \A i \in 1..Len(calls) :
               BadCall(calls[i]) =>
                 /\ Len(messages') >= n + i
                 /\ messages'[n + i].type = "tool"
                 /\ messages'[n + i].status = "error"
                 /\ messages'[n + i].tool_call_id = calls[i].id
                 /\ messages'[n + i].content =
                      (IF calls[i].args = "invalid"
                          /\ calls[i].name # "nonexistent_tool"
                       THEN "InvalidToolArguments" ELSE "UnknownTool")]_vars

\* C10 witness: after an UnknownTool and an InvalidToolArguments result the
\* model has been called again.
C10_Witness ==
  /\ pc = "route"
  /\ \E i \in 1..Len(messages) : messages[i].content = "UnknownTool"
  /\ \E i \in 1..Len(messages) : messages[i].content = "InvalidToolArguments"
  /\ LastOf(messages).type = "ai"

\* A call that reaches the body of a tool that reads database_schema.
SchemaCall(c) == c.name \in SchemaTools /\ c.args = "valid"

\* The failures the transcript may absorb.
AbsorbedFailures == {"UnknownTool", "InvalidToolArguments"}

\* C11: only InvalidToolArguments and UnknownTool failures are absorbed
\* into the transcript: no other failure raised during a turn is ever
\* found in the conversation state as a tool-result message handed to
\* another model call.
C11_OnlyBadCallsAbsorbed ==
  \A i \in 1..Len(messages) :
    (messages[i].type = "tool" /\ messages[i].status = "error")
      => messages[i].content \in AbsorbedFailures

\* C12: when database_schema is absent and the model has requested a tool
\* that reads it, the turn fails: the tools node is never left for another
\* model call.
C12_MissingSchemaFailsTurn ==
  [][(/\ pc = "tools"
      /\ database_schema = Absent
      /\ \E i \in 1..Len(pending_calls) : SchemaCall(pending_calls[i]))
       => pc' \in {"tools", "failed"}]_vars

\* The thread's checkpoint holds what it held when the turn started: as
\* many messages, none of them created by the turn.
SameAsBeforeTurn ==
  /\ Len(checkpoint[thread_id]) = prior
  /\ \A i \in 1..Len(checkpoint[thread_id]) :
       checkpoint[thread_id][i].id < turnStartId

\* C13: when a turn ends in a fatal failure the state persisted under its
\* continuation key is the same as before the turn started.
C13_FailedTurnLeavesNoTrace == pc = "failed" => SameAsBeforeTurn

\* C14: when a turn is cancelled from outside, no assistant message that
\* the model produced in that turn is in the checkpoint of its thread.
C14_CancelCommitsNothing ==
  pc = "cancelled" =>
    \A i \in 1..Len(checkpoint[thread_id]) :
      checkpoint[thread_id][i].type = "ai"
        => checkpoint[thread_id][i].id < turnStartId + Len(request)

Done == "data: [DONE]"

\* The marker is sent once and is the last chunk.
DoneOnceAndLast ==
  /\ chunks # <<>>
  /\ \A i \in 1..Len(chunks) : chunks[i] = Done <=> i = Len(chunks)

\* C15: a /stream response that has ended is the messages of the turn in
\* the order they were produced and then the [DONE] marker, sent once and
\* last; for a turn that reached DONE the chunk before the marker is the
\* final assistant message.
C15_StreamMessagesThenDone ==
  ~StreamOpen =>
    /\ DoneOnceAndLast
    /\ pc = "done" =>
         /\ Len(chunks) >= 2
         /\ chunks[Len(chunks) - 1] = "data: " \o LastOf(messages).content

\* The turn of a request handler is between its first and its last step.
InFlight(p) == p \in {"call_model", "route", "tools"}

\* C16: the turns of two requests that carry the same thread_id are
\* serialized: the two are never in flight on one continuation key at the
\* same time.
C16_TurnsOnOneKeySerialized ==
  ~(InFlight(pc) /\ InFlight(parked.pc) /\ thread_id = parked.thread_id)

\* C17: a step of a turn leaves the checkpoint of every thread but the
\* turn's own unchanged, whatever the other request does in between; a
\* request without thread_id gets a key no request has used and starts from
\* its own messages alone.
C17_ThreadsIndependent ==
  [][/\ \A th \in Threads \ {thread_id'} : checkpoint'[th] = checkpoint[th]
     /\ (turns' = turns + 1 /\ requested' = None)
          => /\ thread_id' \notin usedThreads
             /\ checkpoint[thread_id'] = <<>>
             /\ prior' = 0
             /\ Len(messages') = Len(request')]_vars

\* Two turns in flight on different keys, the running one on a fresh key,
\* both with messages checkpointed.
C17_Witness ==
  /\ InFlight(pc)
  /\ InFlight(parked.pc)
  /\ thread_id # parked.thread_id
  /\ requested = None
  /\ Len(checkpoint[thread_id]) >= 2
  /\ Len(checkpoint[parked.thread_id]) >= 2

\* C18: a visit to call_model invokes the model once, on the window of the
\* state, and is over after it; when the invocation fails the step adds no
\* assistant message and no removal marker, the state and the checkpoint
\* are as they were, and the caller answers with one error response.
C18_ModelCallNotRetried ==
  [][pc = "call_model" =>
       /\ pc' \in {"route", "failed"}
       /\ sent' = messages_to_send(messages)
       /\ pc' = "failed" =>
            /\ update' = <<>>
            /\ messages' = messages
            /\ checkpoint' = checkpoint
            /\ nextId' = nextId
            /\ http_status' = 500]_vars

\* The second model call of a turn has failed, after a tool round-trip.
C18_Witness ==
  /\ pc = "failed"
  /\ sent # <<>>
  /\ update = <<>>
  /\ Len(messages) >= 3
  /\ LastOf(messages).type = "tool"

\* C20: whenever the routing function is evaluated the last message of the
\* conversation state is the assistant message the model has just produced,
\* also when the update carried removal markers, and the routing has never
\* failed on the role of the last message.
C20_RoutingSeesAssistant ==
  /\ routed # "ValueError"
  /\ pc = "route" =>
       /\ update # <<>>
       /\ messages # <<>>
       /\ LastOf(messages).type = "ai"
       /\ LastOf(messages) = update[1]
       /\ route_model_output(messages) # "ValueError"

\* Routing after an update that carried removal markers.
C20_Witness ==
  /\ pc = "route"
  /\ Len(update) >= 2
  /\ update[2].type = "remove"
  /\ Len(messages) = KeepWindow
  /\ LastOf(messages).type = "ai"

\* C19, as stated: the round-trips of a turn have no bound, so no turn is
\* ever stopped for the number of steps it has run, and a turn is done only
\* after a response without tool calls.
C19_NoBoundOnRoundTrips ==
  /\ ~(pc = "failed" /\ steps = RecursionLimit)
  /\ pc = "done" => NoToolCalls(LastOf(messages))

\* C19, amended: a turn runs at most RecursionLimit supersteps; a turn that
\* is due another node after them fails and is not done; a turn is done
\* only after a response without tool calls.
C19_BoundedByRecursionLimit ==
  /\ [](/\ steps <= RecursionLimit
        /\ pc = "done" => NoToolCalls(LastOf(messages)))
  /\ [][(steps = RecursionLimit /\ pc \in {"call_model", "tools"})
          => pc' = "failed"]_vars

\* A turn whose model asked for a tool in its 13th response as well: it
\* has been stopped after 12 round-trips.
C19_Witness ==
  /\ pc = "failed"
  /\ steps = RecursionLimit
  /\ LastOf(messages).type = "ai"
  /\ LastOf(messages).tool_calls # <<>>

\* C21: on every turn that succeeds /invoke_last answers with the last
\* message of the final state, which is the assistant message the model
\* produced last in that turn, without tool calls, and with the key the
\* turn ran under, which is the request's thread_id when it had one.
C21_LastMessageOfTurn ==
  pc = "done" =>
    LET r == invoke_agent_last(output_state, thread_id) IN
      /\ r.status = 200
      /\ r.role = "assistant"
      /\ r.content = LastOf(output_state).content
      /\ LastOf(output_state) = LastOf(messages)
      /\ NoToolCalls(LastOf(messages))
      /\ LastOf(messages).id >= turnStartId + Len(request)
      /\ r.thread_id = thread_id
      /\ r.thread_id \in usedThreads
      /\ requested # None => r.thread_id = requested

\* A turn that made a tool round-trip on a key the request supplied has
\* succeeded.
C21_Witness ==
  /\ pc = "done"
  /\ requested # None
  /\ Len(output_state) >= 4
  /\ output_state[Len(output_state) - 1].type = "tool"

\* ==================================================== the tool functions
\* One invocation of a tool function followed statement by statement:
\* tool.pc is the statement about to run, tool.log the calls made to the
\* services outside the process (PostgreSQL, OpenAI, Pinecone), tool.open
\* the connections open, tool.opened the connections opened so far.
MaxQueryLen == 2
MaxTables == 2

\* A setting of the configuration that was not provided (Python None).
Unset == "<unset>"
SchemaSettings == {Unset, "", "marketing"}
HostSettings == {Unset, "", "index-host"}
NamespaceSettings == {Unset, "", "docs"}

\* `not value` of an Optional[str] setting.
falsy(value) == value \in {Unset, ""}

\* A query is the sequence of its words, the maximal runs of word
\* characters that \b delimits: updated_at and dropped are one word each.
Words ==
  {"select", "users", "updated_at", "dropped", "drop", "DROP", "Drop",
   "Delete", "copy", "commit"}

Queries == UNION {[1..n -> Words] : n \in 1..MaxQueryLen}

\* What re.IGNORECASE compares.
lower(w) ==
  CASE w = "DROP" -> "drop"
    [] w = "Drop" -> "drop"
    [] w = "Delete" -> "delete"
    [] OTHER -> w

forbidden_keywords ==
  <<"insert", "update", "delete", "drop", "alter", "truncate", "create">>

\* validate_query: the first forbidden keyword, in the order of the list,
\* that is a whole word of the query whatever its case; "" when there is
\* none and the function returns.
validate_query(query) ==
  LET hits == {k \in 1..Len(forbidden_keywords) :
                 \E i \in 1..Len(query) :
                   lower(query[i]) = forbidden_keywords[k]}
  IN  IF hits = {} THEN ""
      ELSE forbidden_keywords[CHOOSE k \in hits : \A j \in hits : k <= j]

\* What PostgreSQL does with the text of cursor.execute: the words that
\* start a statement changing data (COPY ... FROM among them), and COMMIT,
\* which ends the transaction psycopg2 opened and keeps what was changed
\* before it.
WritingWords ==
  {"insert", "update", "delete", "drop", "alter", "truncate", "create",
   "copy"}

writes(query) == \E i \in 1..Len(query) : lower(query[i]) \in WritingWords

commits(query) ==
  \E i \in 1..Len(query) : \E j \in 1..Len(query) :
    /\ i < j
    /\ lower(query[i]) \in WritingWords
    /\ lower(query[j]) = "commit"

SqlTools ==
  {"list_tables_tool", "get_table_columns_tool", "execute_sql_query_tool"}

Invocation(name, schema, host, namespace, query, n) ==
  [ToolIdle EXCEPT !.name = name, !.database_schema = schema,
                   !.index_host = host, !.namespace = namespace,
                   !.query = query, !.table_names = n, !.pc = "start"]

ToolInvocations ==
  {Invocation("list_tables_tool", s, Unset, Unset, <<>>, 0) :
     s \in SchemaSettings}
  \cup
  {Invocation("get_table_columns_tool", x[1], Unset, Unset, <<>>, x[2]) :
     x \in SchemaSettings \X (0..MaxTables)}
  \cup
  {Invocation("execute_sql_query_tool", x[1], Unset, Unset, x[2], 0) :
     x \in SchemaSettings \X Queries}
  \cup
  {Invocation("query_knowledge_base_tool", Unset, x[1], x[2], <<>>, 0) :
     x \in HostSettings \X NamespaceSettings}

\* ToolNode calls a tool function.
Invoke(inv) ==
  /\ tool.pc \in {"idle", "returned", "raised"}
  /\ tool' = inv

\* The tool never looks at its settings.
check_settings_unchecked(t) == ""

\* The checks a tool function starts with: the name of the first setting
\* found missing, "" when none is.
check_settings(t) ==
  IF t.name \in SqlTools
    THEN IF falsy(t.database_schema) THEN "database_schema" ELSE ""
    ELSE IF falsy(t.index_host) THEN "index_host"
         ELSE IF falsy(t.namespace) THEN "namespace" ELSE ""

raise(t, type, what) ==
  [t EXCEPT !.pc = "raised", !.error = <<type, what>>]

CheckSettings ==
  /\ tool.pc = "start"
  /\ LET missing == check_settings(tool) IN
       tool' =
         IF missing # "" THEN raise(tool, "ValueError", missing)
         ELSE [tool EXCEPT !.pc =
                 IF tool.name = "execute_sql_query_tool" THEN "validate_query"
                 ELSE IF tool.name = "query_knowledge_base_tool"
                   THEN "get_embedding"
                 ELSE "connect"]

\* _execute_sql_query validates before it connects.
ValidateQuery ==
  /\ tool.pc = "validate_query"
  /\ LET keyword == validate_query(tool.query) IN
       tool' = IF keyword # "" THEN raise(tool, "ValueError", keyword)
               ELSE [tool EXCEPT !.pc = "connect"]

\* psycopg2.connect, outside the try: a failure opens nothing.
Connect(ok) ==
  /\ tool.pc = "connect"
  /\ tool' =
       IF ok
         THEN [tool EXCEPT
                 !.log = Append(@, "connect"),
                 !.open = @ + 1,
                 !.opened = @ + 1,
                 !.pc = IF tool.name = "execute_sql_query_tool"
                          THEN "set_search_path"
                        ELSE IF /\ tool.name = "get_table_columns_tool"
                                /\ tool.table_names = 0
                          THEN "finally"
                        ELSE "execute"]
         ELSE [raise(tool, "OperationalError", "connect") EXCEPT
                 !.log = Append(@, "connect")]

\* An exception inside the try block keeps the exception and skips the
\* finally clause.
leave_try_unclosed(t, type, what) ==
  [t EXCEPT !.pc = "raised", !.error = <<type, what>>]

\* An exception inside the try block: the finally clause runs next and
\* the exception goes on after it.
leave_try(t, type, what) ==
  [t EXCEPT !.pc = "finally", !.error = <<type, what>>]

SetSearchPath(ok) ==
  /\ tool.pc = "set_search_path"
  /\ LET t == [tool EXCEPT !.log = Append(@, "set search_path")] IN
       tool' = IF ok THEN [t EXCEPT !.pc = "execute"]
               ELSE leave_try(t, "DatabaseError", "set search_path")

\* cursor.execute of the query of the tool (of the caller for
\* execute_sql_query_tool): the database runs the whole text.
Execute(ok) ==
  /\ tool.pc = "execute"
  /\ LET t == [tool EXCEPT !.log = Append(@, "execute")] IN
       tool' =
         IF ~ok THEN leave_try(t, "DatabaseError", "execute")
         ELSE IF tool.name = "execute_sql_query_tool"
           THEN [t EXCEPT !.pc = "fetchall",
                          !.written = writes(tool.query),
                          !.committed = commits(tool.query)]
         ELSE [t EXCEPT !.pc = "fetchall"]

FetchOutcomes == {"rows", "ProgrammingError", "OperationalError"}

\* cursor.fetchall: only _execute_sql_query catches ProgrammingError; the
\* loop of _get_columns_for_tables goes on with the next table.
Fetchall(outcome) ==
  /\ tool.pc = "fetchall"
  /\ tool' =
       IF \/ outcome = "rows"
          \/ /\ outcome = "ProgrammingError"
             /\ tool.name = "execute_sql_query_tool"
         THEN IF tool.name = "get_table_columns_tool" /\ tool.table_names > 1
                THEN [tool EXCEPT !.table_names = @ - 1, !.pc = "execute"]
                ELSE [tool EXCEPT !.pc = "finally"]
         ELSE leave_try(tool, outcome, "fetchall")

\* finally: connection.close(); what was not committed is rolled back.
Close ==
  /\ tool.pc = "finally"
  /\ tool' = [tool EXCEPT
                !.log = Append(@, "close"),
                !.open = @ - 1,
                !.written = tool.committed,
                !.pc = IF tool.error = <<>> THEN "returned" ELSE "raised"]

\* get_embedding: the request to OpenAI.
GetEmbedding(ok) ==
  /\ tool.pc = "get_embedding"
  /\ LET t == [tool EXCEPT !.log = Append(@, "openai.embeddings")] IN
       tool' = IF ok THEN [t EXCEPT !.pc = "query_pinecone"]
               ELSE raise(t, "APIError", "openai.embeddings")

\* query_pinecone: the module imports pinecone, never the name Pinecone.
QueryPinecone ==
  /\ tool.pc = "query_pinecone"
  /\ tool' = raise(tool, "NameError", "Pinecone")

TurnVars ==
  <<checkpoint, usedThreads, thread_id, messages, pc, request, prior,
    turnStartId, sent, update, routed, resolved, results, output_state,
    nextId, turns, database_schema, chunks, requested, parked, steps>>

NextTool ==
  \/ \E inv \in ToolInvocations : Invoke(inv) /\ UNCHANGED <<TurnVars, rag>>
  \/ CheckSettings /\ UNCHANGED <<TurnVars, rag>>
  \/ ValidateQuery /\ UNCHANGED <<TurnVars, rag>>
  \/ \E ok \in BOOLEAN : Connect(ok) /\ UNCHANGED <<TurnVars, rag>>
  \/ \E ok \in BOOLEAN : SetSearchPath(ok) /\ UNCHANGED <<TurnVars, rag>>
  \/ \E ok \in BOOLEAN : Execute(ok) /\ UNCHANGED <<TurnVars, rag>>
  \/ \E o \in FetchOutcomes : Fetchall(o) /\ UNCHANGED <<TurnVars, rag>>
  \/ Close /\ UNCHANGED <<TurnVars, rag>>
  \/ \E ok \in BOOLEAN : GetEmbedding(ok) /\ UNCHANGED <<TurnVars, rag>>
  \/ QueryPinecone /\ UNCHANGED <<TurnVars, rag>>

SpecTool == Init /\ [][NextTool]_vars

\* ------------------------------------------------------------------ C22
Calls(t) == {t.log[i] : i \in 1..Len(t.log)}

HasForbiddenWord(query) ==
  \E i \in 1..Len(query) :
    lower(query[i]) \in {"insert", "update", "delete", "drop", "alter",
                         "truncate", "create"}

\* C22: the SQL execution tool is read-only: a query reaches the database
\* only if none of its words is insert, update, delete, drop, alter,
\* truncate or create in any letter case, a query with such a word is
\* rejected with an error before a connection is opened, and nothing the
\* tool executes leaves the data modified.
C22_SqlToolReadOnly ==
  tool.name = "execute_sql_query_tool" =>
    /\ "execute" \in Calls(tool) => ~HasForbiddenWord(tool.query)
    /\ HasForbiddenWord(tool.query) =>
         /\ tool.log = <<>>
         /\ tool.pc \in {"start", "validate_query", "raised"}
         /\ tool.pc = "raised" => tool.error[1] = "ValueError"
    /\ ~tool.committed

\* ------------------------------------------------------------------ C23
Missing(value) == value = Unset \/ value = ""

\* C23: a tool whose required setting is missing or empty calls nothing
\* outside the process: a SQL tool raises before it opens a connection
\* when database_schema is missing, query_knowledge_base_tool raises
\* before any embedding request or vector query when index_host or
\* namespace is missing, and index_host is the one reported when both are.
C23_NoExternalCallWithoutSetting ==
  /\ (tool.name \in SqlTools /\ Missing(tool.database_schema)) =>
       /\ tool.log = <<>>
       /\ tool.open = 0
       /\ tool.pc \in {"start", "raised"}
       /\ tool.pc = "raised" =>
            tool.error = <<"ValueError", "database_schema">>
  /\ (/\ tool.name = "query_knowledge_base_tool"
      /\ Missing(tool.index_host) \/ Missing(tool.namespace)) =>
       /\ tool.log = <<>>
       /\ tool.pc \in {"start", "raised"}
       /\ tool.pc = "raised" =>
            tool.error =
              <<"ValueError",
                IF Missing(tool.index_host) THEN "index_host"
                ELSE "namespace">>

C23_Witness ==
  /\ tool.name = "query_knowledge_base_tool"
  /\ tool.index_host = ""
  /\ tool.namespace = Unset
  /\ tool.pc = "raised"
  /\ tool.error = <<"ValueError", "index_host">>

\* ------------------------------------------------------------------ C28
\* C28: every connection a SQL tool opens is closed before the tool
\* returns or raises, whether the query succeeds, fails or returns no
\* rows, and an invocation never has more than one connection open.
C28_ConnectionsClosed ==
  tool.name \in SqlTools =>
    /\ tool.open \in {0, 1}
    /\ tool.opened <= 1
    /\ tool.pc \in {"returned", "raised"} => tool.open = 0
    /\ tool.pc \in {"set_search_path", "execute", "fetchall", "finally"} =>
         tool.open = 1
    /\ "close" \in Calls(tool) =>
         /\ tool.log[1] = "connect"
         /\ tool.log[Len(tool.log)] = "close"

\* A query that fails after the connection was opened.
C28_Witness ==
  /\ tool.name = "execute_sql_query_tool"
  /\ tool.pc = "raised"
  /\ tool.opened = 1
  /\ tool.error = <<"DatabaseError", "execute">>

\* ====================================================== the RAG pipeline
\* rag.chunks is len(chunks); a chunk is its 0-based position in the list.
\* rag.upserted holds the add_texts calls that reached the vector store,
\* each the sequence of [chunk, chunk_id] pairs of its batch. rag.failing
\* is the number of the add_texts call the service fails, 0 when every
\* service succeeds.
MaxChunks == 4
MaxBatch == 3
MaxFailing == 2

DefaultTamanhoLote == 50

Variants == {"rag_pipeline/rag.py", "rag.py"}

Min(a, b) == IF a < b THEN a ELSE b

\* lote = chunks[i : i + tamanho_lote] with the metadata built for it.
lote(i, tamanho_lote, n) ==
  [idx \in 1..(Min(i + tamanho_lote, n) - i) |->
     [chunk |-> i + (idx - 1), chunk_id |-> i + (idx - 1)]]

\* POST /run-rag: executar_pipeline_rag up to its call of the package's
\* processar_em_lotes, which uses the default batch size.
RunRag(n, failing) ==
  /\ rag.pc \in {"idle", "returned", "raised", "done"}
  /\ rag' = [RagIdle EXCEPT !.entry = "run_rag",
                            !.variant = "rag_pipeline/rag.py",
                            !.chunks = n,
                            !.tamanho_lote = DefaultTamanhoLote,
                            !.failing = failing,
                            !.pc = "for"]

\* processar_em_lotes(vector_store, chunks, namespace, tamanho_lote) of
\* either file, called on its own.
ProcessarEmLotes(variant, n, tamanho_lote, failing) ==
  /\ rag.pc \in {"idle", "returned", "raised", "done"}
  /\ rag' = [RagIdle EXCEPT !.entry = "processar_em_lotes",
                            !.variant = variant,
                            !.chunks = n,
                            !.tamanho_lote = tamanho_lote,
                            !.failing = failing,
                            !.pc = "for"]

\* Where an exception of processar_em_lotes goes: to the except clause of
\* run_rag, or to the caller.
rag_raise(r, error) ==
  [r EXCEPT !.error = error,
            !.pc = IF r.entry = "run_rag" THEN "respond" ELSE "raised"]

\* for i in range(0, len(chunks), tamanho_lote)
ForLote ==
  /\ rag.pc = "for"
  /\ rag' = IF rag.i < rag.chunks THEN [rag EXCEPT !.pc = "add_texts"]
            ELSE [rag EXCEPT !.pc = IF rag.entry = "run_rag" THEN "respond"
                                    ELSE "returned"]

\* vector_store.add_texts(texts, ...) of rag_pipeline/rag.py: the name
\* texts is bound nowhere, the lookup raises before add_texts is called.
AddTextsUnbound ==
  /\ rag.pc = "add_texts"
  /\ rag.variant = "rag_pipeline/rag.py"
  /\ rag' = rag_raise(rag, "NameError")

\* vector_store.add_texts(textos, ...) of rag.py: the batch reaches the
\* vector store unless the service fails this call; the except clause
\* logs and raises again.
AddTexts ==
  /\ rag.pc = "add_texts"
  /\ rag.variant = "rag.py"
  /\ rag' =
       IF Len(rag.upserted) + 1 = rag.failing
         THEN rag_raise(rag, "UpsertError")
         ELSE [rag EXCEPT
                 !.upserted =
                   Append(@, lote(rag.i, rag.tamanho_lote, rag.chunks)),
                 !.i = @ + rag.tamanho_lote,
                 !.pc = "for"]

\* run_rag: the details of executar_pipeline_rag with status 200, or
\* HTTPException(500) for any exception.
RespondRag ==
  /\ rag.pc = "respond"
  /\ rag' = [rag EXCEPT
               !.pc = "done",
               !.status = IF rag.error = "" THEN 200 ELSE 500,
               !.chunks_processed = IF rag.error = "" THEN rag.chunks ELSE 0]

NextRag ==
  \/ \E n \in 0..MaxChunks : \E f \in 0..MaxFailing :
       RunRag(n, f) /\ UNCHANGED <<TurnVars, tool>>
  \/ \E v \in Variants : \E n \in 0..MaxChunks : \E b \in 1..MaxBatch :
       \E f \in 0..MaxFailing :
         ProcessarEmLotes(v, n, b, f) /\ UNCHANGED <<TurnVars, tool>>
  \/ ForLote /\ UNCHANGED <<TurnVars, tool>>
  \/ AddTextsUnbound /\ UNCHANGED <<TurnVars, tool>>
  \/ AddTexts /\ UNCHANGED <<TurnVars, tool>>
  \/ RespondRag /\ UNCHANGED <<TurnVars, tool>>

SpecRag == Init /\ [][NextRag]_vars

\* ------------------------------------------------------------------ C24
Positions(r) ==
  UNION {{<<k, j>> : j \in 1..Len(r.upserted[k])} : k \in 1..Len(r.upserted)}

SentIn(r, c) == {p \in Positions(r) : r.upserted[p[1]][p[2]].chunk = c}

\* C24: when every external service succeeds, POST /run-rag upserts every
\* chunk of the document and answers with success and chunks_processed
\* equal to the number of chunks upserted.
C24_RunRagUpsertsEveryChunk ==
  (rag.entry = "run_rag" /\ rag.failing = 0 /\ rag.pc = "done") =>
    /\ rag.status = 200
    /\ \A c \in 0..(rag.chunks - 1) : SentIn(rag, c) # {}
    /\ rag.chunks_processed = Cardinality(Positions(rag))

\* ------------------------------------------------------------------ C29
\* C29: processar_em_lotes partitions the chunk list: every chunk is sent
\* in exactly one add_texts call, the batches follow the list order, hold
\* at most tamanho_lote chunks and number ceil(n / tamanho_lote), every
\* chunk_id is the position of its chunk in the whole list, and when a
\* batch fails the error propagates and no later batch is sent.
C29_ProcessarEmLotesPartitions ==
  LET n == rag.chunks
      b == rag.tamanho_lote
      bs == rag.upserted
  IN  rag.entry = "processar_em_lotes" =>
        /\ \A k \in 1..Len(bs) :
             /\ Len(bs[k]) \in 1..b
             /\ \A j \in 1..Len(bs[k]) :
                  /\ bs[k][j].chunk = (k - 1) * b + (j - 1)
                  /\ bs[k][j].chunk_id = bs[k][j].chunk
        /\ rag.pc = "returned" =>
             /\ Len(bs) = (n + b - 1) \div b
             /\ \A c \in 0..(n - 1) : Cardinality(SentIn(rag, c)) = 1
        /\ rag.pc = "raised" =>
             /\ rag.error = "UpsertError"
             /\ rag.failing = Len(bs) + 1

\* ---------------------------------------- rounds of one or two tool calls
\* One turn whose rounds ask for no, one or two tools, as many rounds as
\* the recursion limit lets through.
RoundCalls ==
  {<<>>,
   <<<<"execute_sql_query_tool", "valid">>>>,
   <<<<"execute_sql_query_tool", "valid">>,
     <<"execute_sql_query_tool", "valid">>>>}

NextRounds ==
  \/ LoopStart
  \/ \E cl \in RoundCalls : LoopCallModel(cl)
  \/ LoopModelFails
  \/ Route /\ UNCHANGED aux
  \/ \E i \in 1..MaxCalls : LoopToolResolve(i)
  \/ LoopToolsFinish
  \/ OutOfSteps

SpecRounds == Init /\ [][NextRounds]_vars

\* ------------------------------------------------------------------ C25
\* C25: in every window sent to the model each tool-result message comes
\* after the assistant message of that window that carries its tool call,
\* whatever the number of tool calls per round and of rounds.
C25_ToolResultsFollowTheirCall ==
  \A i \in 1..Len(sent) :
    sent[i].type = "tool" =>
      \E j \in 1..(i - 1) :
        /\ sent[j].type = "ai"
        /\ \E k \in 1..Len(sent[j].tool_calls) :
             sent[j].tool_calls[k].id = sent[i].tool_call_id

\* ------------------------------------------------------------------ C26
\* C26: in every model invocation of a turn the window sent to the model
\* contains the most recent user message of the turn's request, however
\* many tool round-trips have accumulated since the turn started.
C26_WindowHoldsUserMessage ==
  LET users == {i \in 1..Len(request) : request[i] = "user"} IN
    (sent # <<>> /\ users # {}) =>
      LET last == CHOOSE i \in users : \A u \in users : u <= i IN
        \E j \in 1..Len(sent) :
          /\ sent[j].type = "human"
          /\ sent[j].id = turnStartId + last - 1

\* ------------------------------------------------------------------ C27
\* call_model has run: the only step taken from call_model that creates a
\* message.
ModelStep == pc = "call_model" /\ nextId' = nextId + 1

Markers(upd) == {upd[i].id : i \in {j \in 1..Len(upd) : upd[j].type = "remove"}}

\* C27: every removal marker that call_model emits names a message that is
\* in the conversation state the marker is applied to, so the eviction is
\* applied and never fails for a missing identifier, for any sequence of
\* turns on a thread and when two turns with the same thread_id interleave.
C27_MarkersNamePresentMessages ==
  [][ModelStep =>
       /\ Markers(update') \subseteq Ids(messages)
       /\ pc' = "route"
       /\ Ids(messages') = (Ids(messages) \cup {nextId}) \ Markers(update')
       /\ \A i \in 1..Len(messages') : messages'[i].type # "remove"
       /\ checkpoint'[thread_id] = messages']_vars

\* An eviction was applied while the other request is in flight on the
\* same thread.
C27_Witness ==
  /\ pc \in {"route", "done"}
  /\ Markers(update) # {}
  /\ InFlight(parked.pc)
  /\ parked.thread_id = thread_id
  /\ parked.messages # <<>>

\* ------------------------------------------------------------------ C30
\* C30: message roles survive the HTTP boundary: a request message enters
\* the conversation as a user message exactly when its role is user and as
\* an assistant message when its role is assistant, and the /invoke
\* response labels a message assistant exactly when it is an assistant
\* message and user exactly when it is a user message, so no tool-result
\* or system message is presented as a user or assistant message.
C30_RolesSurviveHttp ==
  /\ \A i \in 1..Len(request) :
       /\ to_input_message(request[i]).type = "human" <=> request[i] = "user"
       /\ request[i] = "assistant" => to_input_message(request[i]).type = "ai"
  /\ pc = "done" =>
       \A i \in 1..Len(output_state) :
         /\ response_role(output_state[i]) = "assistant"
              <=> output_state[i].type = "ai"
         /\ response_role(output_state[i]) = "user"
              <=> output_state[i].type = "human"

====
